---- MODULE Spec2Model ----
(***************************************************************************)
(* A model of VideoToolbox's external-process orchestration:               *)
(*   - run_compression (compression.py) and run_audio_fix (audio_fix.py),  *)
(*     the two "supervised jobs": probe, launch ffmpeg, read its stderr,   *)
(*     report progress, report the outcome;                                *)
(*   - the audio-fix batch of gui_audio_fix.py (one worker thread per      *)
(*     file, results handed to the Tk event loop);                         *)
(*   - the extract / transform / recompose pipeline of gui_upscale.py,     *)
(*     and the loop of run_video_upscale_gui that runs it per video.       *)
(*                                                                         *)
(* Time stamps and durations are integers (one unit = one second); the     *)
(* floating-point arithmetic of the source is modelled exactly (as         *)
(* rationals), not with its rounding.                                      *)
(***************************************************************************)
EXTENDS Integers, Sequences, FiniteSets, TLC

VARIABLES
    jobs,        \* job id -> the state of one run_audio_fix / run_compression call
    labels,      \* gui_audio_fix: status_labels[idx] text, per job of the batch
    guiQueue,    \* gui_audio_fix: the finish() closures queued by root.after(0, finish)
    buttons,     \* gui_audio_fix: state of the Add / Convert / Clear buttons
    progressWin, \* gui_audio_fix: the batch progress window exists
    nFiles,      \* gui_audio_fix: len(files_to_process)
    nFinish,     \* gui_audio_fix: job id -> number of finish() closures run for it
    up           \* gui_upscale: the state of one run_upscale call

vars == <<jobs, labels, guiQueue, buttons, progressWin, nFiles, nFinish, up>>

jobVars == <<jobs>>
batchVars == <<labels, guiQueue, buttons, progressWin, nFiles, nFinish>>
batchRest == <<guiQueue, buttons, progressWin, nFiles, nFinish>>
upVars == <<up>>

-----------------------------------------------------------------------------
(* Bounds of the model *)

\* lines of ffmpeg output one supervision loop reads before the stream ends
MaxLines == 2
\* files of one audio-fix batch
MaxFiles == 3
\* image files one stage of the upscale pipeline writes
MaxFrames == 2
\* videos of one upscale batch
MaxVideos == 2
\* files of a batch whose termination is checked
MaxFairFiles == 2

-----------------------------------------------------------------------------
(* Inputs *)

\* what the duration probe can print (stripped stdout of ffprobe)
DurationTokens == {"", "N/A", "abc", "0", "-5", "3", "10"}
\* what the audio bit-rate probe can print
BitrateTokens == {"", "N/A", "0", "abc", "1000", "128000"}
\* target sizes in bytes (max_size_gb * 1024^3)
TargetSizes == {0, 500, 1000, 400000}
\* a line of ffmpeg's stderr: NoTime is a line without a time= stamp,
\* a number t >= 0 a line whose stamp parses to t seconds
NoTime == -1
TimeStamps == {0, 2, 10, 12}
Lines == {NoTime} \cup TimeStamps
\* seconds of wall time since start_time, when a line is read
ElapsedTimes == {0, 7, 90}

-----------------------------------------------------------------------------
(* Pure helpers *)

Min(a, b) == IF a <= b THEN a ELSE b

\* Python's int(x) of the quotient n / d, d > 0: truncation toward zero
TruncDiv(n, d) == IF n >= 0 THEN n \div d ELSE -((-n) \div d)

\* float(s): the tokens float() accepts, and their values
FloatParses(tok) == tok \in {"0", "-5", "3", "10"}
FloatValue(tok) ==
    CASE tok = "0" -> 0 [] tok = "-5" -> -5 [] tok = "3" -> 3 [] tok = "10" -> 10
      [] OTHER -> 0

\* int(s): the tokens int() accepts, and their values
IntParses(tok) == tok \in {"0", "1000", "128000"}
IntValue(tok) == CASE tok = "1000" -> 1000 [] tok = "128000" -> 128000 [] OTHER -> 0

\* the duration both jobs derive from the probe: 0 stands for "no usable value"
\* (compression aborts, audio fix sets duration = None)
ParseDuration(tok) ==
    IF FloatParses(tok) /\ FloatValue(tok) > 0 THEN FloatValue(tok) ELSE 0

\* the fallback of run_compression for an unusable audio bit rate
DefaultAudioBitrate == 128000

\* a variant without the fallback: what does not parse counts as 0
ParseAudioBitrate_NoFallback(tok) == IF IntParses(tok) THEN IntValue(tok) ELSE 0

(* compression.py 54-62 *)
ParseAudioBitrate(tok) ==
    IF tok = "" \/ tok = "N/A" \/ tok = "0" THEN DefaultAudioBitrate
    ELSE IF IntParses(tok) THEN IntValue(tok)
    ELSE DefaultAudioBitrate

\* a variant that rounds the quotient down instead of toward zero
VideoBitrateKbps_Floor(targetBytes, duration, audioBitrate) ==
    (targetBytes * 8 - audioBitrate * duration) \div (duration * 1000)

\* run_compression's bitrate calculation
VideoBitrateKbps(targetBytes, duration, audioBitrate) ==
    LET target_bits == targetBytes * 8
        audio_bits_total == audioBitrate * duration
        video_bits_total == target_bits - audio_bits_total
    IN  \* int((video_bits_total / duration) / 1000), the divisions being exact
        TruncDiv(video_bits_total, duration * 1000)

\* A percentage is the rational n / d, d > 0.
NoPct == [n |-> -1, d |-> 1]
IsHundred(p) == p.n = 100 * p.d

\* PctLeq(p, q): p <= q; InRange(p): 0 <= p <= 100
PctLeq(p, q) == p.n * q.d <= q.n * p.d
InRange(p) == 0 <= p.n /\ p.n <= 100 * p.d

\* a variant without the cap at 100
AudioPercent_NoCap(cur, duration) == [n |-> cur * 100, d |-> duration]

\* audio_fix: percent = min(100, (current_time / duration) * 100), a float
AudioPercent(cur, duration) ==
    IF cur * 100 >= 100 * duration THEN [n |-> 100, d |-> 1]
    ELSE [n |-> cur * 100, d |-> duration]

\* compression: percent = min(100, int(cur_time / duration * 100)), an int
CompressPercent(cur, duration) ==
    [n |-> Min(100, TruncDiv(cur * 100, duration)), d |-> 1]

\* The ETA handed to a callback: absent (None, None), or minutes and seconds
NoEta == [some |-> FALSE, m |-> 0, s |-> 0]
Eta(mins, secs) == [some |-> TRUE, m |-> mins, s |-> secs]

\* int(remaining), remaining = elapsed / (cur / duration) - elapsed, for
\* 0 < cur < duration; then divmod(int(remaining), 60)
Remaining(elapsed, cur, duration) == TruncDiv(elapsed * (duration - cur), cur)
DivMod60(r) == Eta(r \div 60, r % 60)

\* a variant of the guard that lets the stamp 00:00:00.00 through
AudioEtaGuard_FromZero(cur, duration) == cur >= 0 /\ cur < duration

\* audio_fix.py 169: current_time > 0 and percent < 100
AudioEtaGuard(cur, duration) == cur > 0 /\ cur < duration

\* compression.py 207: cur_time > 0 and percent < 100
CompressEtaGuard(cur, duration) ==
    cur > 0 /\ CompressPercent(cur, duration).n < 100

(* The divisors one stamped line makes the loop body evaluate, each given by
   an integer of the same sign: duration (audio_fix.py 167; compression.py
   205, 218), and under the guard the fraction complete, percent / 100
   (audio_fix.py 170) or cur_time / duration (compression.py 208), which has
   the sign of the position. *)
AudioDivisors(cur, duration) ==
    {duration} \cup (IF AudioEtaGuard(cur, duration) THEN {cur} ELSE {})
CompressDivisors(cur, duration) ==
    {duration} \cup (IF CompressEtaGuard(cur, duration) THEN {cur} ELSE {})

\* gui_upscale.py 218-219: rate = elapsed / done, under `if done > 0`
PollDivisors(done) == IF done > 0 THEN {done} ELSE {}

\* audio_fix.py 169-174: percent < 100 exactly when current_time < duration
AudioEta(cur, duration, elapsed) ==
    IF AudioEtaGuard(cur, duration)
    THEN DivMod60(Remaining(elapsed, cur, duration))
    ELSE Eta(0, 0)                                    \* mins = secs = 0

\* compression.py 207-212
CompressEta(cur, duration, elapsed) ==
    IF CompressEtaGuard(cur, duration)
    THEN DivMod60(Remaining(elapsed, cur, duration))
    ELSE NoEta                                        \* mins, secs = None, None

-----------------------------------------------------------------------------
(* One supervised job: a call of run_audio_fix or run_compression *)

JobIds == DOMAIN jobs

NewJob(k, g, size) ==
    [kind |-> k,            \* "audio" | "compress"
     gui |-> g,             \* a gui_progress callback was supplied
     pc |-> "start",
     durTok |-> "none",     \* what the duration probe printed
     abrTok |-> "none",     \* what the audio bit-rate probe printed
     probes |-> [duration |-> 0, bitrate |-> 0],  \* ffprobe calls, per query
     duration |-> 0,        \* 0: None / unusable
     targetBytes |-> size,
     audioBitrate |-> 0,
     videoKbps |-> 0,
     proc |-> "none",       \* "none" | "running" | "exited"
     exitCode |-> 0,
     eof |-> FALSE,         \* ffmpeg's stderr has been closed
     nLines |-> 0,
     launches |-> 0,        \* Popen calls that started a process
     popens |-> 0,          \* Popen calls, started or not
     nStamped |-> 0,        \* lines read that carried a time stamp
     exc |-> "none",        \* the exception that ended the supervising code:
                            \* "none" | "launch" | "exit" | "tk" | "callback"
                            \* | "zerodiv"
     badDiv |-> FALSE,      \* a division was evaluated with a divisor <= 0
     cbRaised |-> FALSE,    \* some gui_progress call raised an exception
     cur |-> NoTime,        \* the last time stamp parsed (current_time, cur_time)
     lastPct |-> NoPct,     \* percent of the last gui_progress call
     lastEta |-> NoEta,     \* mins, secs of the last gui_progress call
     shown |-> NoPct,       \* percent of the last progress-bar line (no callback)
     nEvents |-> 0,         \* gui_progress calls
     saw100 |-> FALSE,      \* some gui_progress call had percent = 100
     forced100 |-> FALSE,   \* a 100% event / bar line was forced after the loop
     printed |-> "none",    \* "none" | "abort" | "success" | "failure"
     writing |-> FALSE,     \* inside a print() to the terminal: text out, end not yet
     mainloop |-> "none",   \* compression without callback: progress_win.mainloop()
     result |-> "none"]     \* what the caller gets: "none" | "returned" | "raised"

\* job j's record with the fields of r changed
Upd(j, r) == jobs' = [jobs EXCEPT ![j] = r]

\* the supervising code runs in a thread of its own (no callback supplied)
InThread(J) == ~J.gui

\* a variant in which compression, like audio fix, goes on without a duration
ProbeDurationStep_NoAbort(J, tok) ==
    LET d == ParseDuration(tok) IN
    IF d = 0
    THEN [J EXCEPT !.durTok = tok, !.probes.duration = @ + 1,
                   !.duration = 0, !.pc = "launch"]
    ELSE [J EXCEPT !.durTok = tok, !.probes.duration = @ + 1, !.duration = d,
                   !.pc = IF J.kind = "compress" THEN "probe_audio" ELSE "launch"]

\* a variant in which audio fix guesses a total of 1 s for an unknown duration
ProbeDurationStep_Guesses(J, tok) ==
    LET d == ParseDuration(tok) IN
    IF d = 0
    THEN IF J.kind = "compress"
         THEN [J EXCEPT !.durTok = tok, !.probes.duration = @ + 1,
                        !.printed = "abort",
                        !.result = "returned", !.pc = "done"]
         ELSE [J EXCEPT !.durTok = tok, !.probes.duration = @ + 1,
                        !.duration = 1, !.pc = "launch"]
    ELSE [J EXCEPT !.durTok = tok, !.probes.duration = @ + 1, !.duration = d,
                   !.pc = IF J.kind = "compress" THEN "probe_audio" ELSE "launch"]

(* compression.py 35-46, audio_fix.py 111-122: the duration probe *)
ProbeDurationStep(J, tok) ==
    LET d == ParseDuration(tok) IN
    IF d = 0
    THEN IF J.kind = "compress"
         THEN [J EXCEPT !.durTok = tok, !.probes.duration = @ + 1,
                        !.printed = "abort",
                        !.result = "returned", !.pc = "done"]
         ELSE [J EXCEPT !.durTok = tok, !.probes.duration = @ + 1,
                        !.duration = 0, !.pc = "launch"]
    ELSE [J EXCEPT !.durTok = tok, !.probes.duration = @ + 1, !.duration = d,
                   !.pc = IF J.kind = "compress" THEN "probe_audio" ELSE "launch"]

ProbeDuration(j) ==
    /\ jobs[j].pc = "start"
    /\ \E tok \in DurationTokens : Upd(j, ProbeDurationStep(jobs[j], tok))

(* compression.py 48-108: the audio bit-rate probe, the bitrate calculation
   and the command; nothing here returns early *)
ProbeAudioStep(J, tok) ==
    LET a == ParseAudioBitrate(tok) IN
    [J EXCEPT !.abrTok = tok, !.probes.bitrate = @ + 1,
              !.audioBitrate = a,
              !.videoKbps = VideoBitrateKbps(J.targetBytes, J.duration, a),
              \* 118-180, 253-255: without a callback a progress window is
              \* built, the supervising thread started and mainloop() entered
              !.mainloop = IF J.gui THEN @ ELSE "running",
              !.pc = "launch"]

ProbeAudioBitrate(j) ==
    /\ jobs[j].pc = "probe_audio"
    /\ \E tok \in BitrateTokens : Upd(j, ProbeAudioStep(jobs[j], tok))

(* compression.py 241-258, audio_fix.py 197-204: what the caller of the job
   function sees once the supervising code has ended, normally or not *)
CallerSees(J, raised) ==
    IF InThread(J)
    THEN \* the exception dies with the thread; the caller joins it later
         [J EXCEPT !.pc = "thread_ended"]
    ELSE [J EXCEPT !.pc = "done", !.result = IF raised THEN "raised" ELSE "returned"]

\* a variant that calls Popen again when the launch failed
LaunchStep_Retries(J, ok) ==
    IF ok
    THEN [J EXCEPT !.proc = "running", !.launches = @ + 1, !.popens = @ + 1,
                   !.pc = "reading"]
    ELSE [J EXCEPT !.popens = @ + 1]

\* a variant that goes on supervising after a launch that failed
LaunchStep_IgnoresFailure(J, ok) ==
    IF ok
    THEN [J EXCEPT !.proc = "running", !.launches = @ + 1, !.popens = @ + 1,
                   !.pc = "reading"]
    ELSE [J EXCEPT !.popens = @ + 1, !.pc = "reading"]

(* compression.py 188, audio_fix.py 142-147: subprocess.Popen *)
LaunchStep(J, ok) ==
    IF ok
    THEN [J EXCEPT !.proc = "running", !.launches = @ + 1, !.popens = @ + 1,
                   !.pc = "reading"]
    ELSE \* FileNotFoundError / OSError
         CallerSees([J EXCEPT !.popens = @ + 1, !.exc = "launch"], TRUE)

Launch(j) ==
    /\ jobs[j].pc = "launch"
    /\ \E ok \in BOOLEAN : Upd(j, LaunchStep(jobs[j], ok))

(* The external process, seen from the supervisor: it exits with some code,
   and its stderr reaches end-of-stream (before or after the exit). *)
ProcExit(j) ==
    /\ jobs[j].proc = "running"
    /\ \E code \in {0, 1} :
          Upd(j, [jobs[j] EXCEPT !.proc = "exited", !.exitCode = code])

StreamEnd(j) ==
    /\ jobs[j].proc # "none"
    /\ ~jobs[j].eof
    /\ Upd(j, [jobs[j] EXCEPT !.eof = TRUE])

\* a gui_progress(percent, mins, secs) call
Callback(J, pct, eta) ==
    [J EXCEPT !.lastPct = pct, !.lastEta = eta, !.nEvents = @ + 1,
              !.saw100 = @ \/ IsHundred(pct)]

\* audio_fix.py 165-166: start_time is still None (no stamp was parsed yet)
FirstStamp(J) == J.cur = NoTime

\* some divisor of the set is not strictly positive
NotPositive(divisors) == \E d \in divisors : d <= 0

\* a division by zero raises ZeroDivisionError, which nothing in the loop
\* catches: it ends the supervising code
ZeroDivision(J) == CallerSees([J EXCEPT !.exc = "zerodiv", !.badDiv = TRUE], TRUE)

(* compression.py 198-221, audio_fix.py 158-186: one non-empty line, read
   when `elapsed` seconds have passed since start_time *)
ReadLineStep(J, line, elapsed) ==
    LET J1 == [J EXCEPT !.nLines = @ + 1,
                        !.nStamped = IF line = NoTime THEN @ ELSE @ + 1] IN
    IF line = NoTime THEN J1
    ELSE IF J.kind = "audio"
         THEN IF J.duration = 0 THEN J1          \* "time=" in line and duration
              ELSE IF 0 \in AudioDivisors(line, J.duration) THEN ZeroDivision(J1)
              ELSE LET pct == AudioPercent(line, J.duration)
                       \* start_time is set at the first stamp
                       e == IF FirstStamp(J) THEN 0 ELSE elapsed
                       J2 == [J1 EXCEPT !.cur = line,
                                 !.badDiv = @ \/ NotPositive(AudioDivisors(line, J.duration))]
                   IN  IF J.gui THEN Callback(J2, pct, AudioEta(line, J.duration, e))
                       ELSE [J2 EXCEPT !.shown = pct]      \* the CLI bar
         ELSE IF 0 \in CompressDivisors(line, J.duration) THEN ZeroDivision(J1)
         ELSE LET pct == CompressPercent(line, J.duration)
                  J2 == [J1 EXCEPT !.cur = line,
                            !.badDiv = @ \/ NotPositive(CompressDivisors(line, J.duration))]
              IN  IF J.gui
                  THEN Callback(J2, pct, CompressEta(line, J.duration, elapsed))
                  ELSE [J2 EXCEPT !.shown = pct]  \* after(0, update_gui), CLI bar

(* compression.py 216, 230: without a callback the supervising thread calls
   progress_win.after(0, ...), outside any try.  Once the window is destroyed
   and mainloop() has returned, a Tcl built with threads refuses the call of
   another thread (RuntimeError, "main thread is not in main loop") and one
   built without threads takes it: `tkWorks` is the build's choice. *)
AfterRaises(J, tkWorks) ==
    J.kind = "compress" /\ ~J.gui /\ J.mainloop = "ended" /\ ~tkWorks

\* the exception ends run_ffmpeg and, with it, the supervising thread
TkDies(J) == CallerSees([J EXCEPT !.exc = "tk"], TRUE)

\* a line for which the loop body calls gui_progress
CallsBack(J, line) ==
    J.gui /\ line # NoTime /\ (J.kind = "audio" => J.duration # 0)

(* audio_fix.py 175-180, compression.py 213-214: the gui_progress call of the
   loop body raises.  run_audio_fix makes the call inside try / except
   Exception: pass and goes on; run_compression makes it bare, so the
   exception leaves the loop, run_ffmpeg and run_compression. *)
CallbackRaisesStep(J, line, elapsed) ==
    LET R == [ReadLineStep(J, line, elapsed) EXCEPT !.cbRaised = TRUE] IN
    IF J.kind = "audio" THEN R
    ELSE CallerSees([R EXCEPT !.exc = "callback"], TRUE)

\* the callback gui_audio_fix hands to run_audio_fix writes the job's label
CallbackLabel(J, line) ==
    J.kind = "audio" /\ J.gui /\ line # NoTime /\ J.duration # 0

ReadLine(j) ==
    /\ jobs[j].pc = "reading"
    /\ ~jobs[j].eof
    /\ jobs[j].nLines < MaxLines
    /\ \E line \in Lines, elapsed \in ElapsedTimes, tkWorks \in BOOLEAN,
          cbRaises \in BOOLEAN :
          /\ cbRaises => CallsBack(jobs[j], line)
          /\ Upd(j, IF line # NoTime /\ AfterRaises(jobs[j], tkWorks)
                    THEN TkDies([jobs[j] EXCEPT !.nLines = @ + 1,
                                                !.nStamped = @ + 1])
                    ELSE IF cbRaises
                    THEN CallbackRaisesStep(jobs[j], line, elapsed)
                    ELSE ReadLineStep(jobs[j], line, elapsed))
          /\ labels' = IF CallbackLabel(jobs[j], line)
                       THEN [labels EXCEPT ![j] = "progress"] ELSE labels

\* a variant that leaves the loop at the first empty read
LoopExits_AtStreamEnd(J) == J.eof

(* compression.py 194-197 and 222, audio_fix.py 154-157 and 187: readline()
   returns '' at end-of-stream; the loop is left only when poll() then shows
   the process ended (while it still runs the loop spins), and wait() returns *)
LoopExits(J) == J.eof /\ J.proc = "exited"

ReadEOF(j) ==
    /\ jobs[j].pc = "reading"
    /\ LoopExits(jobs[j])
    /\ Upd(j, [jobs[j] EXCEPT !.pc = "final"])

\* a variant that forces the final progress only when ffmpeg exited with 0
ForceFinalStep_OnlyOnSuccess(J) ==
    IF J.exitCode # 0 THEN [J EXCEPT !.pc = "report"]
    ELSE IF J.kind = "compress"
    THEN IF J.gui
         THEN [Callback(J, [n |-> 100, d |-> 1], Eta(0, 0))
                 EXCEPT !.forced100 = TRUE, !.pc = "report"]
         ELSE [J EXCEPT !.forced100 = TRUE, !.shown = [n |-> 100, d |-> 1],
                        !.pc = "report"]
    ELSE IF ~J.gui /\ J.duration # 0
         THEN [J EXCEPT !.forced100 = TRUE, !.pc = "report"]
         ELSE [J EXCEPT !.pc = "report"]

(* compression.py 223-235, audio_fix.py 188-191: the forced final progress *)
ForceFinalStep(J) ==
    IF J.kind = "compress"
    THEN \* "Always set to 100% at the end"
         IF J.gui
         THEN [Callback(J, [n |-> 100, d |-> 1], Eta(0, 0))
                 EXCEPT !.forced100 = TRUE, !.pc = "report"]
         ELSE [J EXCEPT !.forced100 = TRUE, !.shown = [n |-> 100, d |-> 1],
                        !.pc = "report"]
    ELSE \* if not gui_progress and duration: the CLI bar is drawn at 100%
         IF ~J.gui /\ J.duration # 0
         THEN [J EXCEPT !.forced100 = TRUE, !.shown = [n |-> 100, d |-> 1],
                        !.pc = "report"]
         ELSE [J EXCEPT !.pc = "report"]

ForceFinal(j) ==
    /\ jobs[j].pc = "final"
    /\ \E tkWorks \in BOOLEAN, cbRaises \in BOOLEAN :
          \* compression.py 224-228: the final call is inside try / except
          /\ cbRaises => (jobs[j].kind = "compress" /\ jobs[j].gui)
          /\ Upd(j, IF AfterRaises(jobs[j], tkWorks) THEN TkDies(jobs[j])
                    ELSE [ForceFinalStep(jobs[j]) EXCEPT
                             !.cbRaised = @ \/ cbRaises])

\* a variant that makes one more callback call while reporting the outcome
ReportStep_CallsBack(J) ==
    LET J1 == IF J.gui THEN Callback(J, [n |-> 0, d |-> 1], NoEta) ELSE J IN
    IF J1.exitCode = 0
    THEN CallerSees([J1 EXCEPT !.printed = "success"], FALSE)
    ELSE IF J1.kind = "compress"
         THEN CallerSees([J1 EXCEPT !.printed = "failure"], FALSE)
         ELSE CallerSees([J1 EXCEPT !.exc = "exit"], TRUE)

(* compression.py 236-239, audio_fix.py 192-195: the outcome *)
ReportStep(J) ==
    IF J.exitCode = 0
    THEN CallerSees([J EXCEPT !.printed = "success"], FALSE)
    ELSE IF J.kind = "compress"
         THEN CallerSees([J EXCEPT !.printed = "failure"], FALSE)
         ELSE \* raise RuntimeError(...)
              CallerSees([J EXCEPT !.exc = "exit"], TRUE)

Report(j) ==
    /\ jobs[j].pc = "report"
    /\ Upd(j, ReportStep(jobs[j]))

(* compression.py 255: progress_win.mainloop() returns once the window is
   gone: destroyed 500 ms after finalize_gui, or closed by the user *)
MainloopEnds(j) ==
    /\ jobs[j].mainloop = "running"
    /\ Upd(j, [jobs[j] EXCEPT !.mainloop = "ended"])

(* compression.py 256, audio_fix.py 204: thread.join(), then the return *)
JoinReturns(J) ==
    /\ J.pc = "thread_ended"
    /\ (J.kind = "compress" => J.mainloop = "ended")

Return(j) ==
    /\ JoinReturns(jobs[j])
    /\ Upd(j, [jobs[j] EXCEPT !.pc = "done", !.result = "returned"])

-----------------------------------------------------------------------------
(* SpecJob: one job of either kind, with or without a callback *)

InitJob ==
    /\ \E k \in {"audio", "compress"}, g \in BOOLEAN, size \in TargetSizes :
          jobs = [j \in {1} |-> NewJob(k, g, IF k = "compress" THEN size ELSE 0)]
    /\ labels = [j \in {1} |-> "Waiting..."]
    /\ guiQueue = <<>>
    /\ buttons = "disabled"
    /\ progressWin = TRUE
    /\ nFiles = 1
    /\ nFinish = [j \in {1} |-> 0]
    /\ up = [pc |-> "unused"]

NextJob ==
    \/ \E j \in JobIds : ProbeDuration(j) /\ UNCHANGED <<batchVars, upVars>>
    \/ \E j \in JobIds : ProbeAudioBitrate(j) /\ UNCHANGED <<batchVars, upVars>>
    \/ \E j \in JobIds : Launch(j) /\ UNCHANGED <<batchVars, upVars>>
    \/ \E j \in JobIds : ProcExit(j) /\ UNCHANGED <<batchVars, upVars>>
    \/ \E j \in JobIds : StreamEnd(j) /\ UNCHANGED <<batchVars, upVars>>
    \/ \E j \in JobIds : ReadLine(j) /\ UNCHANGED <<batchRest, upVars>>
    \/ \E j \in JobIds : ReadEOF(j) /\ UNCHANGED <<batchVars, upVars>>
    \/ \E j \in JobIds : ForceFinal(j) /\ UNCHANGED <<batchVars, upVars>>
    \/ \E j \in JobIds : Report(j) /\ UNCHANGED <<batchVars, upVars>>
    \/ \E j \in JobIds : MainloopEnds(j) /\ UNCHANGED <<batchVars, upVars>>
    \/ \E j \in JobIds : Return(j) /\ UNCHANGED <<batchVars, upVars>>

SpecJob == InitJob /\ [][NextJob]_vars

-----------------------------------------------------------------------------
(* SpecBatch: the audio-fix window of gui_audio_fix.py.  One worker thread
   per file runs run_audio_fix with a callback; results reach the widgets
   through closures queued on the Tk event loop. *)

NoJobs == [j \in {} |-> 0]

InitBatch ==
    /\ jobs = NoJobs
    /\ labels = NoJobs
    /\ guiQueue = <<>>
    /\ buttons = "normal"
    /\ progressWin = FALSE
    /\ nFiles = 0
    /\ nFinish = NoJobs
    /\ up = [pc |-> "unused"]

(* gui_audio_fix.py 72-87: the file dialog returned n >= 1 paths *)
AddFiles ==
    /\ buttons = "normal"
    /\ \E n \in 1..MaxFiles : nFiles' = n
    /\ UNCHANGED <<jobs, labels, guiQueue, buttons, progressWin, nFinish, up>>

(* gui_audio_fix.py 89-92 *)
ClearList ==
    /\ buttons = "normal"
    /\ nFiles' = 0
    /\ UNCHANGED <<jobs, labels, guiQueue, buttons, progressWin, nFinish, up>>

(* gui_audio_fix.py 94-126, 164-165: Convert with a non-empty list *)
ConvertFiles ==
    /\ buttons = "normal"
    /\ nFiles > 0
    /\ buttons' = "disabled"
    /\ progressWin' = TRUE
    /\ labels' = [j \in 1..nFiles |-> "Waiting..."]
    /\ jobs' = [j \in 1..nFiles |-> NewJob("audio", TRUE, 0)]
    /\ nFinish' = [j \in 1..nFiles |-> 0]
    /\ UNCHANGED <<guiQueue, nFiles, up>>

\* what the probe prints, and what ffmpeg writes, in the jobs of a batch
BatchDurationTokens == {"N/A", "10"}
BatchLines == {2}
BatchElapsed == {7}

(* gui_audio_fix.py 157-162: the worker's try / except around run_audio_fix *)
WorkerSuccess(J) == J.result = "returned"

(* gui_audio_fix.py 128, 142, 160, 162: once run_audio_fix has returned or
   raised, the worker calls on_file_done, which queues finish() on the event
   loop with root.after(0, finish) *)
\* the locals of the run_audio_fix call are gone once it has returned or
\* raised: what is left of the job is its process and the call's outcome
AfterCall(J) ==
    [NewJob(J.kind, J.gui, J.targetBytes) EXCEPT
        !.pc = "reported", !.result = J.result, !.proc = J.proc,
        !.exitCode = J.exitCode, !.launches = J.launches,
        !.popens = J.popens, !.probes = J.probes, !.exc = J.exc]

\* a variant that queues finish() twice (once in the try, once more after it)
OnFileDone_Twice(j, J) ==
    IF J.pc = "done"
    THEN /\ Upd(j, AfterCall(J))
         /\ LET f == [idx |-> j, success |-> WorkerSuccess(J)]
            IN  guiQueue' = Append(Append(guiQueue, f), f)
    ELSE /\ Upd(j, J)
         /\ UNCHANGED guiQueue

\* a variant whose worker reports only the jobs that succeeded
OnFileDone_OnlySuccess(j, J) ==
    IF J.pc = "done" /\ WorkerSuccess(J)
    THEN /\ Upd(j, AfterCall(J))
         /\ guiQueue' = Append(guiQueue, [idx |-> j, success |-> TRUE])
    ELSE /\ Upd(j, IF J.pc = "done" THEN AfterCall(J) ELSE J)
         /\ UNCHANGED guiQueue

OnFileDone(j, J) ==
    IF J.pc = "done"
    THEN /\ Upd(j, AfterCall(J))
         /\ guiQueue' = Append(guiQueue, [idx |-> j, success |-> WorkerSuccess(J)])
    ELSE /\ Upd(j, J)
         /\ UNCHANGED guiQueue

(* A worker's steps.  What a worker does between two writes of shared state
   (its label, the event queue) touches only its own job and is one step. *)

\* a variant in which a worker starts only when the jobs before it are through
WorkerStart_InTurn(j) ==
    /\ jobs[j].pc = "start"
    /\ \A i \in 1..(j - 1) : jobs[i].pc = "reported"
    /\ \E tok \in BatchDurationTokens :
          Upd(j, [ProbeDurationStep(jobs[j], tok) EXCEPT !.writing = TRUE])
    /\ UNCHANGED <<labels, guiQueue, buttons, progressWin, nFiles, nFinish, up>>

\* audio_fix.py 104-136: the probe, the command, and the print() of the
\* banner, which hands its text and then its end to sys.stdout, holding no
\* lock: other threads run in between
WorkerStart(j) ==
    /\ jobs[j].pc = "start"
    /\ \E tok \in BatchDurationTokens :
          Upd(j, [ProbeDurationStep(jobs[j], tok) EXCEPT !.writing = TRUE])
    /\ UNCHANGED <<labels, guiQueue, buttons, progressWin, nFiles, nFinish, up>>

\* audio_fix.py 136-147: the banner is out; Popen
WorkerLaunch(j) ==
    /\ jobs[j].pc = "launch"
    /\ \E ok \in BOOLEAN :
          OnFileDone(j, LaunchStep([jobs[j] EXCEPT !.writing = FALSE], ok))
    /\ UNCHANGED <<labels, buttons, progressWin, nFiles, nFinish, up>>

\* audio_fix.py 152-186 with gui_audio_fix.py 145-153: a line, the callback
WorkerReadLine(j) ==
    /\ jobs[j].pc = "reading"
    /\ jobs[j].nLines < MaxLines
    /\ \E line \in BatchLines, elapsed \in BatchElapsed :
          /\ Upd(j, ReadLineStep(jobs[j], line, elapsed))
          /\ labels' = IF CallbackLabel(jobs[j], line)
                       THEN [labels EXCEPT ![j] = "progress"] ELSE labels
    /\ UNCHANGED <<guiQueue, buttons, progressWin, nFiles, nFinish, up>>

\* audio_fix.py 154-157, 187-195: ffmpeg ends, the loop is left, the outcome
WorkerEnd(j) ==
    /\ jobs[j].pc = "reading"
    /\ \E code \in {0, 1} :
          LET ended == [jobs[j] EXCEPT !.proc = "exited", !.exitCode = code,
                                       !.eof = TRUE, !.pc = "final"]
          IN  OnFileDone(j, ReportStep(ForceFinalStep(ended)))
    /\ UNCHANGED <<labels, buttons, progressWin, nFiles, nFinish, up>>

TerminalLabels == {"Done!", "Error"}

(* gui_audio_fix.py 130-135 *)
FinishLabel(success) == IF success THEN "Done!" ELSE "Error"

\* a variant in which every closure sees the loop's last index
FinishIdx_LateBound(f) == nFiles

(* gui_audio_fix.py 128-131: finish() is a closure over its own idx *)
FinishIdx(f) == f.idx

\* a variant that is satisfied with one finished job
AllFinished_Any(lbls) == \E i \in 1..nFiles : lbls[i] \in TerminalLabels

(* gui_audio_fix.py 137 *)
AllFinished(lbls) == \A i \in 1..nFiles : lbls[i] \in TerminalLabels

(* gui_audio_fix.py 129-141: the event loop runs the oldest finish() *)
RunFinish ==
    /\ guiQueue # <<>>
    /\ LET f == Head(guiQueue)
           lbls == [labels EXCEPT ![FinishIdx(f)] = FinishLabel(f.success)]
       IN  /\ labels' = lbls
           /\ nFinish' = [nFinish EXCEPT ![FinishIdx(f)] = @ + 1]
           /\ IF AllFinished(lbls)
              THEN buttons' = "normal" /\ progressWin' = FALSE
              ELSE UNCHANGED <<buttons, progressWin>>
    /\ guiQueue' = Tail(guiQueue)
    /\ UNCHANGED <<jobs, nFiles, up>>

NextBatch ==
    \/ AddFiles
    \/ ClearList
    \/ ConvertFiles
    \/ \E j \in JobIds : WorkerStart(j)
    \/ \E j \in JobIds : WorkerLaunch(j)
    \/ \E j \in JobIds : WorkerReadLine(j)
    \/ \E j \in JobIds : WorkerEnd(j)
    \/ RunFinish

SpecBatch == InitBatch /\ [][NextBatch]_vars

(* SpecBatchFair: the batch under fair scheduling.  Every worker thread
   that can go on does so: the probe, Popen, and, ffmpeg ending at some
   point, the end of the loop with the outcome (WorkerEnd); the event loop
   runs the closures queued on it.  What the user does (AddFiles, ClearList,
   ConvertFiles) and how many lines ffmpeg writes before it ends carry no
   fairness. *)
WorkerProceeds(j) == WorkerStart(j) \/ WorkerLaunch(j) \/ WorkerEnd(j)

\* the file dialog of AddFiles, for the batches of at most MaxFairFiles files
AddFewFiles ==
    /\ buttons = "normal"
    /\ \E n \in 1..MaxFairFiles : nFiles' = n
    /\ UNCHANGED <<jobs, labels, guiQueue, buttons, progressWin, nFinish, up>>

NextBatchFair ==
    \/ AddFewFiles
    \/ ClearList
    \/ ConvertFiles
    \/ \E j \in JobIds : WorkerStart(j)
    \/ \E j \in JobIds : WorkerLaunch(j)
    \/ \E j \in JobIds : WorkerReadLine(j)
    \/ \E j \in JobIds : WorkerEnd(j)
    \/ RunFinish

SpecBatchFair ==
    /\ InitBatch /\ [][NextBatchFair]_vars
    /\ \A j \in 1..MaxFairFiles : WF_vars(j \in JobIds /\ WorkerProceeds(j))
    /\ WF_vars(RunFinish)

-----------------------------------------------------------------------------
(* SpecUpscale: one call of run_upscale (gui_upscale.py 104-312).

   The names progress_queue, queue and upscale_result are bound nowhere in
   gui_upscale.py: the first statement of process_queue() (line 249) raises
   NameError, evaluating the except clause of line 260 raises it again, and
   the call of line 266 ends run_upscale with that exception.  Lines 267-312
   (mainloop, join, the recomposition) are never executed, so they have no
   action here.  The upscale thread, started at line 265, runs on. *)

\* the target heights run_video_upscale_gui offers (21-32), and what
\* get_video_resolution can return for the height: 0 stands for None or 0
TargetHeights == {720, 1080, 2160}
SourceHeights == {0, 480, 720, 1000, 1080}

(* 174-180: the scale factor handed to the super-resolution tool *)
ScaleFactor(h, orig_height) ==
    IF orig_height = 0 THEN 2                         \* fallback
    ELSE LET scale == TruncDiv(h, orig_height) + 1    \* int(h / orig_height) + 1
         IN  IF scale < 2 THEN 2 ELSE scale

\* the locals of a run_upscale call at its entry
NewUpscale(tq, nb, old, oldUp, height) ==
    [pc |-> "start",
     use_tqdm |-> tq,        \* 118-122: tqdm can be imported
     nb_frames |-> nb,       \* 125-133: 0 stands for None
     h |-> height,           \* the target height
     orig_height |-> 0,      \* 174: the height read from the file; 0: None or 0
     frames0 |-> old,        \* .jpg files in frames_dir at entry
     frames |-> old,         \* .jpg files in frames_dir
     upFrames0 |-> oldUp,    \* .jpg files in frames_up_dir at entry
     upFrames |-> oldUp,     \* .jpg files in frames_up_dir
     n_frames |-> 0,         \* 192
     scale |-> 0,            \* 174-180; 0: not computed yet
     done |-> 0,             \* 215: the last count the thread took
     badDiv |-> FALSE,       \* 219: a division was evaluated with a divisor <= 0
     eproc |-> "none",       \* the extraction process
     eexit |-> 0,
     eeof |-> FALSE,
     tproc |-> "none",       \* the super-resolution process
     texit |-> 0,
     thr |-> "none",         \* the upscale thread
     launched |-> [extract |-> 0, transform |-> 0, recompose |-> 0],
     stages |-> <<>>,        \* stages passed, in order
     reported |-> {},        \* stages whose failure was printed
     result |-> "none"]      \* "none" | "True" | "False" | "NameError"

InitUpscale ==
    /\ jobs = NoJobs
    /\ labels = NoJobs
    /\ guiQueue = <<>>
    /\ buttons = "normal"
    /\ progressWin = FALSE
    /\ nFiles = 0
    /\ nFinish = NoJobs
    \* 113-114: makedirs(..., exist_ok=True) takes the directories as they are
    /\ \E tq \in BOOLEAN, nb \in {0, MaxFrames}, old \in 0..1,
          oldUp \in 0..MaxFrames, height \in TargetHeights :
          up = NewUpscale(tq, nb, old, oldUp, height)

UpdUp(r) == up' = r /\ UNCHANGED <<jobVars, batchVars>>

\* 139: the extraction is supervised line by line
ExtractWithBar(U) == U.use_tqdm /\ U.nb_frames # 0

(* 135-142, 159: the extraction process is started *)
ExtractLaunch ==
    /\ up.pc = "start"
    /\ UpdUp([up EXCEPT !.eproc = "running", !.launched.extract = @ + 1,
                        !.pc = IF ExtractWithBar(up) THEN "extract_read"
                               ELSE "extract_run"])

(* The extraction process: it writes frames, closes stderr, exits *)
ExtractWrites ==
    /\ up.eproc = "running"
    /\ up.frames < MaxFrames
    /\ UpdUp([up EXCEPT !.frames = @ + 1])

ExtractStreamEnd ==
    /\ up.eproc # "none"
    /\ ~up.eeof
    /\ UpdUp([up EXCEPT !.eeof = TRUE])

ExtractExit ==
    /\ up.eproc = "running"
    /\ \E code \in {0, 1} : UpdUp([up EXCEPT !.eproc = "exited", !.eexit = code])

(* 143-146: the loop is left at the first empty readline() *)
ExtractLoopEnds ==
    /\ up.pc = "extract_read"
    /\ up.eeof
    /\ UpdUp([up EXCEPT !.pc = "extract_wait"])

(* 154 proc.wait(); 159 subprocess.run(), which returns once the pipes are
   at end-of-stream and the process has ended *)
ExtractWaited ==
    /\ \/ up.pc = "extract_wait"
       \/ up.pc = "extract_run" /\ up.eeof
    /\ up.eproc = "exited"
    /\ UpdUp([up EXCEPT !.pc = "extract_check"])

\* a variant that empties what the failed extraction staged
ExtractCheckStep_CleansUp(U) ==
    IF U.eexit # 0
    THEN [U EXCEPT !.reported = @ \cup {"extract"}, !.result = "False",
                   !.frames = U.frames0, !.pc = "done"]
    ELSE [U EXCEPT !.stages = Append(@, "Extracted"), !.pc = "tool_check"]

(* 160-163 *)
ExtractCheckStep(U) ==
    IF U.eexit # 0
    THEN [U EXCEPT !.reported = @ \cup {"extract"}, !.result = "False", !.pc = "done"]
    ELSE [U EXCEPT !.stages = Append(@, "Extracted"), !.pc = "tool_check"]

ExtractCheck ==
    /\ up.pc = "extract_check"
    /\ UpdUp(ExtractCheckStep(up))

(* 167-171, 172-207, 264-265: the executable is looked up; the scale factor
   is derived from the height read again from the file, the input frames are
   counted, the progress window built and the upscale thread started *)
ToolCheckStep(U, found, orig_height) ==
    IF ~found
    THEN [U EXCEPT !.result = "False", !.pc = "done"]
    ELSE [U EXCEPT !.orig_height = orig_height,
                   !.scale = ScaleFactor(U.h, orig_height),
                   !.n_frames = U.frames, !.thr = "launch", !.pc = "process_queue"]

ToolCheck ==
    /\ up.pc = "tool_check"
    /\ \E found \in BOOLEAN, orig_height \in SourceHeights :
          UpdUp(ToolCheckStep(up, found, IF found THEN orig_height ELSE 0))

(* 266, 246-262: process_queue() raises NameError *)
ProcessQueueStep(U) == [U EXCEPT !.result = "NameError", !.pc = "done"]

ProcessQueue ==
    /\ up.pc = "process_queue"
    /\ UpdUp(ProcessQueueStep(up))

(* 209-211: the upscale thread starts the super-resolution process *)
ThreadLaunch ==
    /\ up.thr = "launch"
    /\ UpdUp([up EXCEPT !.tproc = "running", !.launched.transform = @ + 1,
                        !.thr = "poll"])

(* The super-resolution process: it writes frames, at most one for each
   frame of its input directory, and exits *)
TransformWrites ==
    /\ up.tproc = "running"
    /\ up.upFrames - up.upFrames0 < up.frames
    /\ up.upFrames < MaxFrames + 1
    /\ UpdUp([up EXCEPT !.upFrames = @ + 1])

TransformExit ==
    /\ up.tproc = "running"
    /\ \E code \in {0, 1} : UpdUp([up EXCEPT !.tproc = "exited", !.texit = code])

(* 212-233: one round of the polling loop.  The thread calls Tk
   (progress_var.set, eta_label.config, progress_root.update) although it is
   not the thread that owns the interpreter and that thread is not in
   mainloop(): the call goes through or raises RuntimeError, by the build. *)
ThreadPollStep(U, tkWorks) ==
    IF ~tkWorks THEN [U EXCEPT !.thr = "dead"]
    ELSE IF U.tproc = "exited"
         THEN [U EXCEPT !.done = U.upFrames, !.thr = "check",
                        !.badDiv = @ \/ NotPositive(PollDivisors(U.upFrames))]
         ELSE [U EXCEPT !.done = U.upFrames,
                        !.badDiv = @ \/ NotPositive(PollDivisors(U.upFrames))]

ThreadPoll ==
    /\ up.thr = "poll"
    /\ \E tkWorks \in BOOLEAN : UpdUp(ThreadPollStep(up, tkWorks))

(* 234-243: the exit code is looked at; progress_queue.put raises NameError
   on either path, so the thread ends there *)
ThreadCheckStep(U) ==
    IF U.texit # 0
    THEN [U EXCEPT !.reported = @ \cup {"transform"}, !.thr = "dead"]
    ELSE [U EXCEPT !.thr = "dead"]

ThreadCheck ==
    /\ up.thr = "check"
    /\ UpdUp(ThreadCheckStep(up))

NextUpscale ==
    \/ ExtractLaunch
    \/ ExtractWrites
    \/ ExtractStreamEnd
    \/ ExtractExit
    \/ ExtractLoopEnds
    \/ ExtractWaited
    \/ ExtractCheck
    \/ ToolCheck
    \/ ProcessQueue
    \/ ThreadLaunch
    \/ TransformWrites
    \/ TransformExit
    \/ ThreadPoll
    \/ ThreadCheck

SpecUpscale == InitUpscale /\ [][NextUpscale]_vars

-----------------------------------------------------------------------------
(* SpecUpBatch: run_video_upscale_gui (gui_upscale.py 34-101) from the point
   where the jobs and the output folder are chosen: the loop of lines 99-100
   calls run_upscale for one video after the other, in the calling thread,
   with no try / except around the call. *)

\* the paths the file dialog can return: folder, base name, extension
Files == {[dir |-> "a", base |-> "clip", ext |-> "mp4"],
          [dir |-> "a", base |-> "clip", ext |-> "mkv"],
          [dir |-> "a", base |-> "other", ext |-> "mp4"]}

\* 108: os.path.splitext(os.path.basename(filepath))[0]
VideoName(f) == f.base

\* 109-110: the staging directories, both inside outdir
FramesDir(f) == <<"frames_", VideoName(f)>>
FramesUpDir(f) == <<"frames_upscaled_", VideoName(f)>>

\* the batches of the model: one to MaxVideos distinct paths, in some order
Batches ==
    {q \in UNION {[1..n -> Files] : n \in 1..MaxVideos} :
        \A i, k \in DOMAIN q : i # k => q[i] # q[k]}

\* the .jpg files of every staging directory under outdir
EmptyDirs == [d \in {FramesDir(f) : f \in Files} \cup {FramesUpDir(f) : f \in Files} |-> 0]

\* the height asked for in the jobs of a batch
BatchHeight == 1080

\* the state of the loop around the locals of the call in progress
UpBatchCall(q, i, dirs, outs, tq, nb) ==
    NewUpscale(tq, nb, dirs[FramesDir(q[i])], dirs[FramesUpDir(q[i])], BatchHeight)
      @@ [videos |-> q,          \* upscale_jobs
          idx |-> i,             \* the job run_upscale is called for
          fs |-> dirs,           \* the staging directories, as the ended calls left them
          outcomes |-> outs,     \* what the ended calls returned
          batch |-> "running"]   \* "running" | "finished" | "raised"

InitUpBatch ==
    /\ jobs = NoJobs
    /\ labels = NoJobs
    /\ guiQueue = <<>>
    /\ buttons = "none"
    /\ progressWin = FALSE
    /\ nFiles = 0
    /\ nFinish = NoJobs
    /\ \E q \in Batches, tq \in BOOLEAN, nb \in {0, MaxFrames} :
          up = UpBatchCall(q, 1, EmptyDirs, <<>>, tq, nb)

\* the staging directories once the call in progress has ended
DirsAfterCall(U) ==
    [U.fs EXCEPT ![FramesDir(U.videos[U.idx])] = U.frames,
                 ![FramesUpDir(U.videos[U.idx])] = U.upFrames]

(* 99-101: run_upscale has returned; the loop calls it for the next job, or
   ends and the "Done" box is shown *)
LoopNext ==
    /\ up.batch = "running"
    /\ up.pc = "done"
    /\ up.result \in {"True", "False"}
    /\ LET outs == Append(up.outcomes, up.result) IN
       IF up.idx < Len(up.videos)
       THEN \E nb \in {0, MaxFrames} :
               UpdUp(UpBatchCall(up.videos, up.idx + 1, DirsAfterCall(up), outs,
                                 up.use_tqdm, nb))
       ELSE UpdUp([up EXCEPT !.outcomes = outs, !.fs = DirsAfterCall(up),
                             !.batch = "finished", !.pc = "over"])

(* 99-100: the NameError of run_upscale leaves the loop and
   run_video_upscale_gui; the jobs not yet run are dropped *)
LoopRaiseStep(U) ==
    [U EXCEPT !.batch = "raised", !.pc = "over"]

LoopRaise ==
    /\ up.batch = "running"
    /\ up.pc = "done"
    /\ up.result = "NameError"
    /\ UpdUp(LoopRaiseStep(up))

NextUpBatch ==
    \/ NextUpscale
    \/ LoopNext
    \/ LoopRaise

SpecUpBatch == InitUpBatch /\ [][NextUpBatch]_vars

-----------------------------------------------------------------------------
(* SpecLoops: the program run for a single job (SpecJob) or for a single
   upscale (SpecUpscale): every line-reading supervision loop of the
   repository that is ever executed. *)

InitLoops == InitJob \/ InitUpscale

\* main.py 57-59: the upscale workflow was chosen
UpscaleChosen == up.pc # "unused"

NextLoops ==
    \/ NextJob
    \/ UpscaleChosen /\ NextUpscale

SpecLoops == InitLoops /\ [][NextLoops]_vars

-----------------------------------------------------------------------------
(* SpecSubmit: the program run for an audio-fix batch (SpecBatch) or for an
   upscale batch (SpecUpBatch): the two places where several jobs are
   submitted at once. *)

InitSubmit == InitBatch \/ InitUpBatch

NextSubmit ==
    \/ NextBatch
    \/ UpscaleChosen /\ NextUpBatch

SpecSubmit == InitSubmit /\ [][NextSubmit]_vars

-----------------------------------------------------------------------------
(* Properties of the upscale pipeline, checked under SpecUpscale *)

\* C1: in run_upscale a stage whose process exits non-zero stops the
\* pipeline: no later stage is launched, the result is failure (False) and
\* the failed stage is named in the report.
C1_HaltsAtFirstFailure ==
    /\ (up.pc = "done" /\ up.eproc = "exited" /\ up.eexit # 0)
         => /\ up.result = "False"
            /\ "extract" \in up.reported
            /\ up.launched.transform = 0
            /\ up.launched.recompose = 0
    /\ (up.pc = "done" /\ up.thr = "dead" /\ up.tproc = "exited" /\ up.texit # 0)
         => /\ up.result = "False"
            /\ "transform" \in up.reported
            /\ up.launched.recompose = 0

\* C2: when every stage's process exits with code 0, run_upscale passes
\* through Extracted, Transformed, Recomposed in that order, launches each
\* stage's process exactly once and returns True.
C2_AllZeroEndsDone ==
    (/\ up.pc = "done" /\ up.thr = "dead"
     /\ up.eproc = "exited" /\ up.eexit = 0
     /\ up.tproc = "exited" /\ up.texit = 0)
    => /\ up.result = "True"
       /\ up.stages = <<"Extracted", "Transformed", "Recomposed">>
       /\ up.launched = [extract |-> 1, transform |-> 1, recompose |-> 1]

\* ceil(a / b) for a >= 0, b > 0
CeilDiv(a, b) == (a + b - 1) \div b

\* the scale factor has been computed
ScaleComputed == up.scale # 0

\* C18: for every target height and every positive source height the scale
\* factor handed to the super-resolution tool is max(2, ceil(target /
\* source)), also where the target is an exact multiple of the source.
C18_ScaleIsCeil ==
    (ScaleComputed /\ up.orig_height > 0)
    => up.scale = (IF CeilDiv(up.h, up.orig_height) < 2 THEN 2
                   ELSE CeilDiv(up.h, up.orig_height))

\* C26: when a stage of run_upscale fails, the pipeline leaves the staging
\* directories as they are: no step removes a staged or an upscaled frame,
\* and the steps that report a failure change neither directory.
C26_FailureLeavesFrames ==
    [][/\ up.frames' >= up.frames
       /\ up.upFrames' >= up.upFrames
       /\ (up.result = "none" /\ up.result' # "none")
             => (up.frames' = up.frames /\ up.upFrames' = up.upFrames)
       /\ (up.reported' # up.reported)
             => (up.frames' = up.frames /\ up.upFrames' = up.upFrames)]_vars

C26_Witness ==
    /\ up.result = "False" /\ "extract" \in up.reported
    /\ up.frames = MaxFrames /\ up.frames0 = 0

\* the polling loop of the upscale thread has taken a count
Polled == up.thr \in {"poll", "check", "dead"} /\ up.tproc # "none"

\* C27: every progress value of the polling loop satisfies
\* 0 <= done <= n_frames, n_frames being the input frames counted before the
\* stage started, whatever the staging directories held at the start.
C27_DoneWithinFrames ==
    Polled => (0 <= up.done /\ up.done <= up.n_frames)

-----------------------------------------------------------------------------
(* Properties of the upscale batch, checked under SpecUpBatch *)

\* C11: in an upscale batch the failure of one video, be it a stage that
\* returns failure or an error raised inside run_upscale, never ends the
\* batch and never keeps the remaining videos from being run: the loop is
\* never left by an error, and a batch that is over has run every video.
C11_UpscaleBatchIsolated ==
    /\ up.batch # "raised"
    /\ up.batch = "finished" => Len(up.outcomes) = Len(up.videos)

\* the jobs of the batch run_upscale has been called for so far
Called == 1..up.idx

\* C19: no two jobs of an upscale batch use the same staging directory,
\* whatever the paths of their input files; so the frames a job counts are
\* the frames its own extraction wrote.
C19_StagingDirsDistinct ==
    /\ \A i, k \in Called :
          i # k => /\ FramesDir(up.videos[i]) # FramesDir(up.videos[k])
                   /\ FramesUpDir(up.videos[i]) # FramesUpDir(up.videos[k])
    /\ ScaleComputed => up.n_frames = up.frames - up.frames0

-----------------------------------------------------------------------------
(* Properties of the line-reading loops, checked under SpecLoops *)

\* the code after the supervision loop of a job is running or has run; an
\* exception raised in the loop body (AfterRaises, CallbackRaisesStep) ends
\* the supervising code instead
LeftLoop(J) ==
    /\ J.proc # "none"
    /\ J.pc \in {"final", "report", "thread_ended", "done"}
    /\ J.exc \notin {"tk", "callback"}

\* C13 (as claimed): every line-reading loop is left only when the stream
\* has ended and the process has been seen terminated.
C13_LoopsLeaveOnBoth ==
    /\ \A j \in JobIds :
          LeftLoop(jobs[j]) => (jobs[j].eof /\ jobs[j].proc = "exited")
    /\ (UpscaleChosen /\ up.pc = "extract_wait")
          => (up.eeof /\ up.eproc = "exited")

\* C13 (amended): the loops of audio fix and compression are left by their
\* break only when the stream has ended and the process has been seen
\* terminated (an exception raised inside the loop ends it at once); the
\* extraction loop of run_upscale is left at the first empty read, that is
\* at the end of the stream, whether or not the process has ended, and the
\* exit code is read only after the wait for the process that follows.
C13_OnlyJobLoopsCheckExit ==
    /\ \A j \in JobIds :
          LeftLoop(jobs[j]) => (jobs[j].eof /\ jobs[j].proc = "exited")
    /\ (UpscaleChosen /\ up.pc = "extract_wait") => up.eeof
    /\ (UpscaleChosen /\ up.pc \in {"extract_check", "tool_check", "process_queue", "done"})
          => up.eproc = "exited"

C13_Witness ==
    UpscaleChosen /\ up.pc = "extract_wait" /\ up.eeof /\ up.eproc = "running"

-----------------------------------------------------------------------------
(* Properties of one supervised job, checked under SpecJob *)

\* C3: a job with a callback whose process exits 0 has delivered a progress
\* event with percent = 100 to the callback by the time its success is
\* reported, whatever was parsed before.
C3_Final100BeforeSuccess ==
    \A j \in JobIds :
        (jobs[j].gui /\ jobs[j].proc = "exited" /\ jobs[j].exitCode = 0
            /\ jobs[j].printed = "success")
        => jobs[j].saw100

\* C4 (as claimed): a job whose process exits non-zero emits no forced 100%
\* progress event (callback call or progress-bar line) after the process exit.
C4_NoForced100OnFailure ==
    \A j \in JobIds :
        (jobs[j].proc = "exited" /\ jobs[j].exitCode # 0) => ~jobs[j].forced100

\* the code after the supervision loop has run (the supervising code was not
\* ended by an exception of the progress window or of the callback)
PastFinal(J) ==
    /\ J.proc = "exited"
    /\ J.pc \in {"report", "thread_ended", "done"}
    /\ J.exc \notin {"tk", "callback"}

\* C4 (amended): the forced 100% event does not depend on the exit code.
\* After the loop run_compression, unless an exception of its progress
\* window or of its callback has ended the supervision, always emits it (the callback call
\* (100, 0, 0), or the 100% bar line), run_audio_fix emits the 100% bar line
\* when it has no callback and knows the duration, and emits nothing
\* otherwise; in each case for a zero and for a non-zero exit code alike,
\* and never before the process has ended.
C4_ForcedWhateverExit ==
    \A j \in JobIds :
        /\ PastFinal(jobs[j])
             => (jobs[j].forced100 <=>
                   (jobs[j].kind = "compress" \/ (~jobs[j].gui /\ jobs[j].duration # 0)))
        /\ jobs[j].forced100 => jobs[j].proc = "exited"

C4_Witness ==
    \E j \in JobIds :
        /\ jobs[j].kind = "compress" /\ jobs[j].gui
        /\ jobs[j].exitCode # 0 /\ jobs[j].printed = "failure"
        /\ jobs[j].forced100 /\ IsHundred(jobs[j].lastPct)

\* C5: the status the caller of the job receives is success exactly when the
\* process exited with code 0 and failure exactly when it exited non-zero,
\* for run_audio_fix called with a callback (the batch worker's view) and
\* for run_compression.
C5_StatusMatchesExit ==
    \A j \in JobIds :
        (jobs[j].pc = "done" /\ jobs[j].proc = "exited"
            /\ (jobs[j].kind = "compress" \/ jobs[j].gui))
        => (jobs[j].result = "returned" <=> jobs[j].exitCode = 0)

\* the bitrate of a compression job has been computed
BitrateComputed(J) ==
    J.kind = "compress" /\ J.duration > 0 /\ J.pc \notin {"start", "probe_audio"}

\* C6: a compression job whose computed video bitrate is <= 0 kbps never
\* launches the transcoder.
C6_InfeasibleNeverLaunched ==
    \A j \in JobIds :
        (BitrateComputed(jobs[j]) /\ jobs[j].videoKbps <= 0)
        => (jobs[j].launches = 0 /\ jobs[j].proc = "none")

\* probe outputs that carry no usable duration
UnusableDurations == {"", "N/A", "abc", "0", "-5"}

\* C7 (as claimed): with no usable duration the job fails fast and the
\* transcoder is never launched, for compression and for audio fix alike.
C7_BothFailFast ==
    \A j \in JobIds :
        jobs[j].durTok \in UnusableDurations
        => (jobs[j].launches = 0 /\ jobs[j].proc = "none")

\* C7 (amended): with no usable duration the compression job prints the
\* abort message and returns without ever launching the transcoder; the
\* audio-fix job is not stopped: it runs with an unknown duration and makes
\* no callback call.
C7_CompressionFailsFast ==
    \A j \in JobIds :
        jobs[j].durTok \in UnusableDurations
        => IF jobs[j].kind = "compress"
           THEN /\ jobs[j].pc = "done"
                /\ jobs[j].printed = "abort"
                /\ jobs[j].result = "returned"
                /\ jobs[j].launches = 0
                /\ jobs[j].proc = "none"
           ELSE /\ jobs[j].duration = 0
                /\ jobs[j].printed # "abort"
                /\ jobs[j].nEvents = 0

C7_Witness ==
    \E j \in JobIds :
        jobs[j].kind = "compress" /\ jobs[j].durTok = "N/A" /\ jobs[j].pc = "done"

\* the bits left for the video, and the divisor of the kbps quotient
VideoBits(J) == J.targetBytes * 8 - J.audioBitrate * J.duration
KbpsDivisor(J) == J.duration * 1000

C14_PercentInRange ==
    \A j \in JobIds :
        /\ jobs[j].lastPct # NoPct => InRange(jobs[j].lastPct)
        /\ jobs[j].shown # NoPct => InRange(jobs[j].shown)

C14_Witness ==
    \E j \in JobIds :
        /\ jobs[j].kind = "audio" /\ jobs[j].gui /\ jobs[j].pc = "reading"
        /\ jobs[j].duration > 0 /\ jobs[j].cur > jobs[j].duration
        /\ IsHundred(jobs[j].lastPct)

\* this step makes a callback call of job j that is not its first
NextEvent(j) == jobs[j].nEvents > 0 /\ jobs'[j].nEvents = jobs[j].nEvents + 1

\* C15: for every sequence of valid time-stamp lines and a fixed duration,
\* the percentages delivered to the callback of one job never decrease from
\* one event to the next.
C15_PercentNonDecreasing ==
    [][\A j \in JobIds :
          NextEvent(j) => PctLeq(jobs[j].lastPct, jobs'[j].lastPct)]_vars

\* C16: the forced 100% event of a job is the last progress event
\* delivered to its callback: once it is made no further callback call is
\* made for that job, so the last percentage delivered stays 100.
C16_Forced100IsLast ==
    /\ [](\A j \in JobIds :
            (jobs[j].gui /\ jobs[j].forced100) => IsHundred(jobs[j].lastPct))
    /\ [][\A j \in JobIds :
            (jobs[j].gui /\ jobs[j].forced100)
                => jobs'[j].nEvents = jobs[j].nEvents]_vars

C16_Witness ==
    \E j \in JobIds :
        /\ jobs[j].gui /\ jobs[j].forced100 /\ jobs[j].pc = "done"
        /\ jobs[j].nEvents = 3 /\ jobs[j].cur = 2

\* C17: the ETA handed to the callback is absent when the percentage is 0
\* and when it is 100, and is a pair (minutes, seconds) of non-negative
\* integers with seconds < 60 for every percentage strictly between, for
\* the audio-fix and for the compression supervisor.
C17_EtaAbsentAtEnds ==
    \A j \in JobIds :
        (jobs[j].gui /\ jobs[j].nEvents > 0)
        => IF jobs[j].lastPct.n = 0 \/ IsHundred(jobs[j].lastPct)
           THEN ~jobs[j].lastEta.some
           ELSE /\ jobs[j].lastEta.some
                /\ jobs[j].lastEta.m >= 0
                /\ jobs[j].lastEta.s >= 0 /\ jobs[j].lastEta.s < 60

\* C21: run_audio_fix raises RuntimeError to its caller whenever ffmpeg
\* returns a non-zero exit code, with a callback (ffmpeg supervised in the
\* calling thread) and without one (supervised in a thread that is joined).
C21_RaisesOnNonZero ==
    \A j \in JobIds :
        (jobs[j].kind = "audio" /\ jobs[j].pc = "done"
            /\ jobs[j].proc = "exited" /\ jobs[j].exitCode # 0)
        => jobs[j].result = "raised"

\* what the audio bit-rate probe prints when it has no usable value
UnusableBitrates == {"", "N/A", "0", "abc"}

\* C23: when the audio bit-rate probe of run_compression yields no usable
\* value (empty, N/A, 0, not an integer), no exception escapes, 128000 bits/s
\* enters the bitrate calculation, and the job goes on to the launch of the
\* transcoder.
C23_BitrateProbeDefaults ==
    \A j \in JobIds :
        (jobs[j].kind = "compress" /\ jobs[j].abrTok \in UnusableBitrates)
        => /\ jobs[j].audioBitrate = 128000
           /\ jobs[j].videoKbps =
                 VideoBitrateKbps(jobs[j].targetBytes, jobs[j].duration, 128000)
           /\ jobs[j].exc \in {"none", "launch", "tk", "callback"}
           /\ jobs[j].printed # "abort"
           \* the next thing the job does is the Popen call
           /\ jobs[j].popens = 0
                 => (jobs[j].pc = "launch" /\ jobs[j].result = "none"
                       /\ jobs[j].exc = "none")

C23_Witness ==
    \E j \in JobIds :
        /\ jobs[j].kind = "compress" /\ jobs[j].abrTok = "abc"
        /\ jobs[j].proc = "running" /\ jobs[j].launches = 1

C28_ReturnsAfterExit ==
    \A j \in JobIds :
        (jobs[j].kind = "compress" /\ ~jobs[j].gui /\ jobs[j].launches = 1
            /\ jobs[j].pc = "done")
        => jobs[j].proc = "exited"

\* C31: a progress callback that raises never changes a job's outcome and
\* never stops supervision: the supervisor keeps reading until the process
\* has exited and reports the result the exit code gives, for the
\* intermediate and the final calls of run_audio_fix and run_compression.
C31_CallbackErrorsIgnored ==
    \A j \in JobIds :
        (jobs[j].cbRaised /\ jobs[j].pc = "done")
        => /\ jobs[j].proc = "exited" /\ jobs[j].eof
           /\ IF jobs[j].kind = "audio"
              THEN jobs[j].result =
                     (IF jobs[j].exitCode = 0 THEN "returned" ELSE "raised")
              ELSE /\ jobs[j].result = "returned"
                   /\ jobs[j].printed =
                        (IF jobs[j].exitCode = 0 THEN "success" ELSE "failure")

-----------------------------------------------------------------------------
(* Properties of the external calls, checked under SpecLoops *)

\* C32: no progress or ETA computation divides by zero.  Every division the
\* supervisors of audio fix, compression and the transform stage evaluate
\* (position by duration, elapsed by fraction complete, elapsed by frames
\* done) has a strictly positive divisor, for every sequence of stamps, the
\* stamp 00:00:00.00 included, and every directory count, 0 included.
C32_NoDivisionByZero ==
    /\ \A j \in JobIds : ~jobs[j].badDiv /\ jobs[j].exc # "zerodiv"
    /\ UpscaleChosen => ~up.badDiv

C32_Witness ==
    \E j \in JobIds :
        /\ jobs[j].gui /\ jobs[j].nStamped = MaxLines /\ jobs[j].nEvents = MaxLines
        /\ jobs[j].cur = 0 /\ jobs[j].lastPct.n = 0
        /\ ~jobs[j].badDiv /\ jobs[j].exc = "none"

\* C22: nothing is retried.  Within one job each probe query is issued at
\* most once, and each external process (transcoder, super-resolution tool)
\* is launched at most once per stage, whatever its exit code and whether or
\* not the launch succeeded.
C22_NothingRetried ==
    /\ \A j \in JobIds :
          /\ jobs[j].probes.duration <= 1
          /\ jobs[j].probes.bitrate <= 1
          /\ jobs[j].popens <= 1
          /\ jobs[j].launches <= jobs[j].popens
          /\ jobs[j].pc = "done"
                => jobs[j].popens = (IF jobs[j].printed = "abort" THEN 0 ELSE 1)
    /\ UpscaleChosen
          => /\ up.launched.extract <= 1
             /\ up.launched.transform <= 1
             /\ up.launched.recompose <= 1

C22_Witness ==
    \E j \in JobIds :
        /\ jobs[j].pc = "done" /\ jobs[j].popens = 1
        /\ jobs[j].launches = 0 /\ jobs[j].exc = "launch"

-----------------------------------------------------------------------------
(* Properties of the audio-fix batch, checked under SpecBatch *)

\* finish() closures of job j waiting on the event loop
Pending(j) == Cardinality({k \in 1..Len(guiQueue) : guiQueue[k].idx = j})

\* a new batch is started by this step
BatchStarts == buttons = "normal" /\ buttons' = "disabled"

\* C9: each job of a batch produces exactly one terminal result: none
\* before its worker is through, one (queued or shown) from then on, never
\* two, and one shown for every job once the event loop has run all that
\* was queued; and a label that shows Done! or Error is not written again
\* in that batch.
C9_ExactlyOneResult ==
    /\ [](\A j \in JobIds :
            /\ Pending(j) + nFinish[j] = IF jobs[j].pc = "reported" THEN 1 ELSE 0
            /\ labels[j] \in TerminalLabels <=> nFinish[j] = 1
            /\ (guiQueue = <<>> /\ jobs[j].pc = "reported") => nFinish[j] = 1)
    /\ [][\A j \in DOMAIN labels :
            (labels[j] \in TerminalLabels /\ ~BatchStarts) => labels'[j] = labels[j]]_vars

C9_Witness ==
    \E j, k \in JobIds :
        /\ labels[j] \in TerminalLabels /\ nFinish[j] = 1
        /\ labels[k] = "progress" /\ jobs[k].pc = "reading"

\* a job of the batch that failed: ffmpeg could not be launched or exited non-zero
Failed(j) == jobs[j].pc = "reported" /\ ~(jobs[j].proc = "exited" /\ jobs[j].exitCode = 0)

\* C10: a failing job changes no other job's outcome: a job whose result
\* is shown is Done! exactly when its own process exited 0, and when the
\* whole batch is shown the Error labels are as many as the failed jobs.
C10_FailureIsolated ==
    /\ \A j \in JobIds :
          nFinish[j] >= 1 =>
             (labels[j] = "Done!" <=> (jobs[j].proc = "exited" /\ jobs[j].exitCode = 0))
    /\ (\A j \in JobIds : labels[j] \in TerminalLabels)
          => Cardinality({j \in JobIds : labels[j] = "Error"})
               = Cardinality({j \in JobIds : Failed(j)})

C10_Witness ==
    /\ JobIds = 1..3
    /\ labels[1] = "Done!" /\ labels[2] = "Error" /\ labels[3] = "Done!"
    /\ jobs[2].proc = "exited" /\ jobs[2].exitCode = 1

\* C20: the writes concurrently running jobs make to the terminal are
\* serialized: at no point are two job threads inside a write to the
\* terminal, so one job's output is never interleaved with another's.
C20_TerminalWritesSerialized ==
    \A j, k \in JobIds : (j # k /\ jobs[j].writing) => ~jobs[k].writing

\* C29: the batch progress window is destroyed and the buttons are
\* re-enabled exactly once per batch, in a step after which every job of the
\* batch has a terminal status and no finish() is left to run; while a job
\* has no terminal status the buttons stay disabled, and a batch starts only
\* with the buttons enabled, so never while another one runs.
C29_ReenabledOnceAllTerminal ==
    /\ [](/\ (buttons = "disabled") <=> progressWin
          /\ (\E j \in JobIds : labels[j] \notin TerminalLabels)
                => buttons = "disabled"
          /\ buttons = "normal" => guiQueue = <<>>)
    /\ [][/\ (buttons = "disabled" /\ buttons' = "normal")
             => /\ \A j \in JobIds :
                      labels'[j] \in TerminalLabels /\ jobs[j].pc = "reported"
                /\ progressWin /\ ~progressWin'
                /\ guiQueue' = <<>>
          /\ (~progressWin /\ progressWin')
             => /\ buttons = "normal" /\ buttons' = "disabled"
                /\ \A j \in JobIds : labels[j] \in TerminalLabels]_vars

C29_Witness ==
    /\ buttons = "normal" /\ ~progressWin
    /\ JobIds = 1..MaxFiles
    /\ \A j \in JobIds : labels[j] \in TerminalLabels /\ nFinish[j] = 1
    /\ labels[1] = "Done!" /\ labels[MaxFiles] = "Error"

\* C30: if the process of every job ends or fails to launch, then under fair
\* scheduling of the workers and of the event loop every job of a batch
\* reaches a terminal status and the buttons are enabled again.
C30_BatchTerminates ==
    (buttons = "disabled")
        ~> (buttons = "normal" /\ \A j \in JobIds : labels[j] \in TerminalLabels)

C30_Witness ==
    /\ buttons = "normal" /\ JobIds = 1..MaxFairFiles
    /\ \A j \in JobIds : labels[j] \in TerminalLabels
    /\ \E j \in JobIds : jobs[j].exc = "launch"
    /\ \E j \in JobIds : jobs[j].exc = "exit"

-----------------------------------------------------------------------------
(* Properties of batch submission, checked under SpecSubmit *)

\* C25: when an external binary cannot be launched (ffmpeg for a job of the
\* audio-fix batch, the super-resolution executable for the transform
\* stage), the job is reported as failed, no progress event is delivered
\* for that launch, and no later stage of the job runs.
C25_LaunchFailureEndsJob ==
    /\ \A j \in JobIds :
          (jobs[j].popens = 1 /\ jobs[j].launches = 0)
          => /\ jobs[j].pc = "reported" /\ jobs[j].proc = "none"
             /\ jobs[j].exc = "launch" /\ jobs[j].result = "raised"
             /\ labels[j] \in {"Waiting...", "Error"}
             /\ nFinish[j] = 1 => labels[j] = "Error"
    /\ (UpscaleChosen /\ up.pc = "done" /\ up.stages = <<"Extracted">>
           /\ up.thr = "none")
          => /\ up.result = "False"
             /\ up.tproc = "none" /\ up.done = 0
             /\ up.launched.transform = 0 /\ up.launched.recompose = 0

C25_Witness ==
    \E j \in JobIds :
        /\ jobs[j].exc = "launch" /\ jobs[j].launches = 0
        /\ nFinish[j] = 1 /\ labels[j] = "Error"

\* an audio-fix batch is under way
AudioBatchRuns == buttons = "disabled"

\* the job run_upscale is being called for, or was last called for
CurrentCallRuns == up.pc \notin {"done", "over"}

\* C12 (as claimed): a batch submission returns without waiting for any
\* job and no job waits for another: every job of a submitted batch has
\* its thread, a job that has not started can start whatever the state of
\* the others, and while a job runs the submitting call has returned.
C12_NoJobWaits ==
    /\ AudioBatchRuns
          => /\ JobIds = 1..nFiles
             /\ \A j \in JobIds : jobs[j].pc = "start" => ENABLED WorkerStart(j)
    /\ UpscaleChosen
          => /\ up.idx = Len(up.videos)
             /\ CurrentCallRuns => up.batch # "running"

\* C12 (amended): an audio-fix batch is submitted without waiting: Convert
\* gives every file a worker thread of its own and returns, and a job that
\* has not started can start whatever the state of the other jobs.  An
\* upscale batch runs in the calling thread, one video after the other: a
\* video's pipeline starts only when the calls for all videos before it have
\* returned, and run_video_upscale_gui is left only when the last call has
\* returned or a call has raised.
C12_OnlyAudioBatchIsConcurrent ==
    /\ AudioBatchRuns
          => /\ JobIds = 1..nFiles
             /\ \A j \in JobIds : jobs[j].pc = "start" => ENABLED WorkerStart(j)
    /\ UpscaleChosen
          => /\ Len(up.outcomes) = (IF up.batch = "finished" THEN up.idx ELSE up.idx - 1)
             /\ CurrentCallRuns => up.batch = "running"
             /\ up.batch = "finished" => up.idx = Len(up.videos)
             /\ up.batch = "raised" => up.result = "NameError"

C12_Witness ==
    /\ UpscaleChosen
    /\ up.idx = 2 /\ up.outcomes = <<"False">>
    /\ up.eproc = "running" /\ up.batch = "running"

====
